---- MODULE Spec2Model ----
(***************************************************************************)
(* SimpleTodoApp: a FastAPI service over two tables (users, todos).        *)
(* The state is the two tables, the primary-key sequences of the storage   *)
(* engine, the wall clock, the bearer tokens clients hold, and the last    *)
(* request together with its response.  One action per route handler.      *)
(* For the update handler run by several worker processes at once, each    *)
(* worker's database session is state too, and the handler is also given   *)
(* statement by statement (read, assign, commit).                          *)
(*                                                                         *)
(* bcrypt is modelled as a salted one-way hash (verify recomputes the      *)
(* checksum from the salt), on passwords within bcrypt's input length.     *)
(* python-jose is modelled by what encode/decode do to the claims: the     *)
(* expiry is stored as whole seconds and compared in whole seconds.        *)
(***************************************************************************)
EXTENDS Integers, Sequences, FiniteSets, TLC

VARIABLES users, todos, user_seq, todo_seq, backend, now, issued, resp, sessions

vars == <<users, todos, user_seq, todo_seq, backend, now, issued, resp, sessions>>

(***************************************************************************)
(* Bounds of the model.                                                    *)
(***************************************************************************)
MaxTodoId == 2          \* todo primary keys handed out
MaxUserId == 2          \* user primary keys handed out (failed inserts included)
MaxTokens == 1          \* bearer tokens held by clients at one time
TicksPerSecond == 2     \* clock resolution: ticks in one second
MaxSlack == 1           \* ticks the clock runs on after the last expiry second
NumWorkers == 2         \* worker processes serving requests at the same time

(***************************************************************************)
(* Program constants.                                                      *)
(***************************************************************************)
ACCESS_TOKEN_EXPIRE_MINUTES == 60
HTTP_200_OK == 200
HTTP_201_CREATED == 201
HTTP_204_NO_CONTENT == 204
HTTP_401_UNAUTHORIZED == 401
HTTP_404_NOT_FOUND == 404
HTTP_422_UNPROCESSABLE_ENTITY == 422
HTTP_500_INTERNAL_SERVER_ERROR == 500
TitleMinLength == 3
DescriptionMinLength == 1
DescriptionMaxLength == 100
PriorityMin == 1
PriorityMax == 5
NewPasswordMinLength == 6
NewPasswordMaxLength == 50
PathMinId == 1

SECRET_KEY == "SECRET_KEY"

\* Python None in a string-valued slot, SQL NULL / an absent integer
\* (primary keys start at 1).
None == "None"
NULL == 0

(***************************************************************************)
(* Request inputs.                                                         *)
(***************************************************************************)
Usernames == {"alice", "bob"}
Emails == {"alice@example.com", "bob@example.com"}
Roles == {"user", "admin"}
Passwords == {"pw123456", "hunter2!"}
\* "short" has 5 characters, the last one 51.
NewPasswords == Passwords \cup
    {"short", "123456789012345678901234567890123456789012345678901"}
Salts == {"saltA", "saltB"}

\* every registration body the auth specification submits
RegistrationRequests ==
    [username : Usernames, email : Emails, first_name : {"A"},
     last_name : {"B"}, password : {"pw123456"}, role : Roles]

\* the two accounts the todo specification registers
Profiles ==
    { [username |-> "alice", email |-> "alice@example.com", first_name |-> "A",
       last_name |-> "B", password |-> "pw123456", role |-> "user"],
      [username |-> "bob", email |-> "bob@example.com", first_name |-> "A",
       last_name |-> "B", password |-> "hunter2!", role |-> "admin"] }

LongDescription ==
    "12345678901234567890123456789012345678901234567890123456789012345678901234567890123456789012345678901"

ValidTodoRequests ==
    { [title |-> "Buy milk", description |-> "2%", priority |-> 2, completed |-> FALSE],
      [title |-> "Walk dog", description |-> "park", priority |-> 5, completed |-> TRUE] }

InvalidTodoRequests ==
    { [title |-> "ab", description |-> "2%", priority |-> 2, completed |-> FALSE],
      [title |-> "Buy milk", description |-> "", priority |-> 1, completed |-> FALSE],
      [title |-> "Buy milk", description |-> LongDescription, priority |-> 5, completed |-> TRUE],
      [title |-> "Buy milk", description |-> "2%", priority |-> 0, completed |-> FALSE],
      [title |-> "Buy milk", description |-> "2%", priority |-> 6, completed |-> TRUE] }

TodoRequests == ValidTodoRequests \cup InvalidTodoRequests

\* path parameters: 0 is below Path(ge=1), MaxTodoId + 1 is never stored
TodoIds == 0 .. (MaxTodoId + 1)

NoFields == [title |-> "", description |-> "", priority |-> 0, completed |-> FALSE]

(***************************************************************************)
(* Storage engine: primary keys.                                           *)
(***************************************************************************)
Backends == {"sqlite", "postgresql"}

Ids(rows) == { r.id : r \in rows }

MaxOf(S) == IF S = {} THEN 0 ELSE CHOOSE m \in S : \A x \in S : x <= m

\* SQLite hands out max(rowid) + 1, PostgreSQL the next value of a sequence
\* that never goes back.
NewId(engine, rows, seq) ==
    IF engine = "sqlite" THEN MaxOf(Ids(rows)) + 1 ELSE seq + 1

(***************************************************************************)
(* passlib CryptContext(schemes=["bcrypt"]).                               *)
(***************************************************************************)
Checksum(salt, password) == <<salt, password>>

bcrypt_hash(password, salt) ==
    [scheme |-> "bcrypt", salt |-> salt, checksum |-> Checksum(salt, password)]

bcrypt_verify(password, hashed) ==
    hashed.checksum = Checksum(hashed.salt, password)

(***************************************************************************)
(* Tokens.                                                                 *)
(***************************************************************************)
\* timegm(utctimetuple()): a clock reading as whole seconds
ToSeconds(t) == t \div TicksPerSecond

\* timedelta(minutes=60), in ticks
ExpireTicks == ACCESS_TOKEN_EXPIRE_MINUTES * 60 * TicksPerSecond

MaxTime == ExpireTicks + TicksPerSecond + MaxSlack

\* jose.jwt.encode: a datetime "exp" becomes whole seconds; the claims are signed
jwt_encode(claims, key) ==
    [sub |-> claims.sub, id |-> claims.id, exp |-> ToSeconds(claims.exp), sig |-> key]

\* a decode that checks the signature and never the expiry
jwt_decode_NoExpiry(token, key, t) ==
    IF token.sig # key THEN [ok |-> FALSE, sub |-> None, id |-> NULL]
    ELSE [ok |-> TRUE, sub |-> token.sub, id |-> token.id]

\* jose.jwt.decode: the signature, then exp against the clock in whole
\* seconds, then "sub" must be a string when present
jwt_decode(token, key, t) ==
    IF token.sig # key THEN [ok |-> FALSE, sub |-> None, id |-> NULL]
    ELSE IF token.exp < ToSeconds(t) THEN [ok |-> FALSE, sub |-> None, id |-> NULL]
    ELSE [ok |-> TRUE, sub |-> token.sub, id |-> token.id]

create_access_token(username, user_id, expires_delta, t) ==
    jwt_encode([sub |-> username, id |-> user_id, exp |-> t + expires_delta], SECRET_KEY)

\* a request without an Authorization header
NoAuthorization == [sub |-> None, id |-> NULL, exp |-> 0, sig |-> "no Authorization header"]

NoUser == [username |-> None, id |-> NULL]

\* OAuth2PasswordBearer: 401 without a bearer token
oauth2_bearer(auth) == auth # NoAuthorization

get_current_user(auth, t) ==
    IF ~oauth2_bearer(auth) THEN [status |-> HTTP_401_UNAUTHORIZED, user |-> NoUser]
    ELSE LET payload == jwt_decode(auth, SECRET_KEY, t) IN
         IF ~payload.ok THEN [status |-> HTTP_401_UNAUTHORIZED, user |-> NoUser]
         ELSE IF payload.sub = None \/ payload.id = NULL
              THEN [status |-> HTTP_401_UNAUTHORIZED, user |-> NoUser]
              ELSE [status |-> HTTP_200_OK,
                    user |-> [username |-> payload.sub, id |-> payload.id]]

\* dict.get on the dict get_current_user returns
DictGet(d, k) == IF k \in DOMAIN d THEN d[k] ELSE None

\* tokens no login produced: a foreign signature, and signed payloads that
\* lack a required claim
FarFuture == ToSeconds(MaxTime) + 1

BadTokens ==
    { [sub |-> "bob", id |-> 1, exp |-> FarFuture, sig |-> "attacker key"],
      [sub |-> None, id |-> 1, exp |-> FarFuture, sig |-> SECRET_KEY],
      [sub |-> "alice", id |-> NULL, exp |-> FarFuture, sig |-> SECRET_KEY] }

HeldTokens == { h.token : h \in issued }

\* what a client can put in the Authorization header
Credentials == HeldTokens \cup BadTokens \cup {NoAuthorization}

(***************************************************************************)
(* Responses.                                                              *)
(***************************************************************************)
Idle ==
    [op |-> "none", status |-> 0, auth |-> NoAuthorization, identity |-> NoUser,
     todo_id |-> NULL, fields |-> NoFields, body |-> {},
     username |-> None, email |-> None, password |-> None, new_password |-> None,
     access_token |-> NoAuthorization]

\* the worker processes, each with the database session of the request it
\* is serving
Workers == 1 .. NumWorkers

IdleSession ==
    [pc |-> "idle", status |-> 0, todo_id |-> NULL, request |-> NoFields,
     loaded |-> [id |-> NULL, title |-> "", description |-> "", priority |-> 0,
                 completed |-> FALSE, owner_id |-> NULL]]

Init ==
    /\ sessions = [w \in Workers |-> IdleSession]
    /\ users = {}
    /\ todos = {}
    /\ user_seq = 0
    /\ todo_seq = 0
    /\ backend \in Backends
    /\ now = 0
    /\ issued = {}
    /\ resp = Idle

Respond(op, status, auth, identity) ==
    [Idle EXCEPT !.op = op, !.status = status, !.auth = auth, !.identity = identity]

(***************************************************************************)
(* routers/auth.py                                                         *)
(***************************************************************************)
NoRow ==
    [id |-> NULL, email |-> None, username |-> None, first_name |-> None,
     last_name |-> None, hashed_password |-> bcrypt_hash(None, None),
     is_active |-> FALSE, role |-> None]

\* db.query(Users).filter(Users.username == username).first()
UserByName(table, username) ==
    IF \E u \in table : u.username = username
    THEN CHOOSE u \in table : u.username = username
    ELSE NoRow

\* db.query(Users).filter(Users.id == user_id).first()
UserById(table, user_id) ==
    IF \E u \in table : u.id = user_id
    THEN CHOOSE u \in table : u.id = user_id
    ELSE NoRow

is_user_authenticated(username, password, table) ==
    LET user == UserByName(table, username) IN
    IF user = NoRow THEN [ok |-> FALSE, user |-> NoRow]
    ELSE IF ~bcrypt_verify(password, user.hashed_password)
         THEN [ok |-> FALSE, user |-> NoRow]
         ELSE [ok |-> TRUE, user |-> user]

\* the unique constraints on users.email and users.username
UniqueViolation(table, req) ==
    \E u \in table : u.username = req.username \/ u.email = req.email

\* db.add; db.commit: the engine raises IntegrityError on a duplicate, which
\* no handler catches
InsertUserOutcome(table, req, salt, new_id) ==
    IF UniqueViolation(table, req)
    THEN [status |-> HTTP_500_INTERNAL_SERVER_ERROR, rows |-> table]
    ELSE [status |-> HTTP_201_CREATED,
          rows |-> table \cup
              { [id |-> new_id, email |-> req.email, username |-> req.username,
                 first_name |-> req.first_name, last_name |-> req.last_name,
                 hashed_password |-> bcrypt_hash(req.password, salt),
                 is_active |-> TRUE, role |-> req.role] }]

create_user(req, salt) ==
    LET new_id == NewId(backend, users, user_seq)
        out == InsertUserOutcome(users, req, salt, new_id)
    IN /\ new_id <= MaxUserId
       /\ users' = out.rows
       /\ user_seq' = IF backend = "postgresql" THEN new_id ELSE user_seq
       /\ resp' = [Respond("create_user", out.status, NoAuthorization, NoUser)
                     EXCEPT !.username = req.username, !.email = req.email,
                            !.password = req.password]
       /\ UNCHANGED <<sessions, todos, todo_seq, backend, now, issued>>

\* the client keeps the new token, dropping an old one when it holds MaxTokens
Keep(held, h) ==
    IF Cardinality(held \cup {h}) <= MaxTokens
    THEN {held \cup {h}}
    ELSE { (held \ {old}) \cup {h} : old \in held }

login_for_access_token(username, password) ==
    LET auth == is_user_authenticated(username, password, users) IN
    IF ~auth.ok
    THEN /\ resp' = [Respond("login", HTTP_401_UNAUTHORIZED, NoAuthorization, NoUser)
                       EXCEPT !.username = username, !.password = password]
         /\ UNCHANGED <<sessions, users, todos, user_seq, todo_seq, backend, now, issued>>
    ELSE LET token == create_access_token(auth.user.username, auth.user.id, ExpireTicks, now) IN
         /\ issued' \in Keep(issued, [token |-> token, iat |-> now, username |-> username])
         /\ resp' = [Respond("login", HTTP_200_OK, NoAuthorization, NoUser)
                       EXCEPT !.username = username, !.password = password,
                              !.access_token = token]
         /\ UNCHANGED <<sessions, users, todos, user_seq, todo_seq, backend, now>>

(***************************************************************************)
(* routers/users.py                                                        *)
(***************************************************************************)
UserVerificationValid(new_password) ==
    /\ Len(new_password) >= NewPasswordMinLength
    /\ Len(new_password) <= NewPasswordMaxLength

Profile(usr) ==
    [id |-> usr.id, username |-> usr.username, email |-> usr.email,
     first_name |-> usr.first_name, last_name |-> usr.last_name,
     role |-> usr.role, is_active |-> usr.is_active]

get_user(auth) ==
    LET cu == get_current_user(auth, now)
        usr == UserById(users, cu.user.id)
    IN /\ resp' =
            IF cu.status # HTTP_200_OK
            THEN Respond("get_user", HTTP_401_UNAUTHORIZED, auth, NoUser)
            ELSE IF usr = NoRow
                 THEN Respond("get_user", HTTP_500_INTERNAL_SERVER_ERROR, auth, cu.user)
                 ELSE [Respond("get_user", HTTP_200_OK, auth, cu.user)
                         EXCEPT !.body = {Profile(usr)}]
       /\ UNCHANGED <<sessions, users, todos, user_seq, todo_seq, backend, now, issued>>

\* a handler that takes the new password without re-verifying the old one
ChangePasswordOutcome_NoVerify(table, cu, password, new_password, salt) ==
    LET usr == UserById(table, cu.user.id) IN
    IF cu.status # HTTP_200_OK
    THEN [status |-> HTTP_401_UNAUTHORIZED, rows |-> table]
    ELSE IF ~UserVerificationValid(new_password)
    THEN [status |-> HTTP_422_UNPROCESSABLE_ENTITY, rows |-> table]
    ELSE IF usr = NoRow
    THEN [status |-> HTTP_500_INTERNAL_SERVER_ERROR, rows |-> table]
    ELSE [status |-> HTTP_204_NO_CONTENT,
          rows |-> (table \ {usr}) \cup
              { [usr EXCEPT !.hashed_password = bcrypt_hash(new_password, salt)] }]

\* the dependency (401) runs before the body is validated (422); the handler
\* then re-verifies the old password
ChangePasswordOutcome(table, cu, password, new_password, salt) ==
    LET usr == UserById(table, cu.user.id) IN
    IF cu.status # HTTP_200_OK
    THEN [status |-> HTTP_401_UNAUTHORIZED, rows |-> table]
    ELSE IF ~UserVerificationValid(new_password)
    THEN [status |-> HTTP_422_UNPROCESSABLE_ENTITY, rows |-> table]
    ELSE IF usr = NoRow
    THEN [status |-> HTTP_500_INTERNAL_SERVER_ERROR, rows |-> table]
    ELSE IF ~bcrypt_verify(password, usr.hashed_password)
    THEN [status |-> HTTP_401_UNAUTHORIZED, rows |-> table]
    ELSE [status |-> HTTP_204_NO_CONTENT,
          rows |-> (table \ {usr}) \cup
              { [usr EXCEPT !.hashed_password = bcrypt_hash(new_password, salt)] }]

change_password(auth, password, new_password, salt) ==
    LET cu == get_current_user(auth, now)
        out == ChangePasswordOutcome(users, cu, password, new_password, salt)
    IN /\ users' = out.rows
       /\ resp' = [Respond("change_password", out.status, auth, cu.user)
                     EXCEPT !.password = password, !.new_password = new_password]
       /\ UNCHANGED <<sessions, todos, user_seq, todo_seq, backend, now, issued>>

(***************************************************************************)
(* The clock.                                                              *)
(***************************************************************************)
\* the instants at which requests arrive: the first ticks after the start and
\* the first ticks after one token lifetime
Instants ==
    { t \in 0 .. MaxTime : t % ExpireTicks <= TicksPerSecond + MaxSlack }

Tick(t) ==
    /\ t > now
    /\ now' = t
    /\ resp' = Idle
    /\ UNCHANGED <<sessions, users, todos, user_seq, todo_seq, backend, issued>>

(***************************************************************************)
(* routers/todos.py: no handler depends on get_current_user, so the         *)
(* Authorization header a client sends is carried by the request and read  *)
(* by nothing.                                                             *)
(***************************************************************************)
TodoRequestValid(todo) ==
    /\ Len(todo.title) >= TitleMinLength
    /\ Len(todo.description) >= DescriptionMinLength
    /\ Len(todo.description) <= DescriptionMaxLength
    /\ todo.priority >= PriorityMin
    /\ todo.priority <= PriorityMax

\* todo_id: int = Path(ge=1)
PathValid(todo_id) == todo_id >= PathMinId

NoTodo ==
    [id |-> NULL, title |-> "", description |-> "", priority |-> 0,
     completed |-> FALSE, owner_id |-> NULL]

\* db.query(Todos).filter(Todos.id == todo_id).first()
TodoById(rows, todo_id) ==
    IF \E t \in rows : t.id = todo_id
    THEN CHOOSE t \in rows : t.id = todo_id
    ELSE NoTodo

\* `db.query(Todos).all() is None` is never true: all() returns a list
ReadAllOutcome(rows) ==
    [status |-> HTTP_200_OK, body |-> rows]

GetOutcome(rows, todo_id) ==
    IF ~PathValid(todo_id)
    THEN [status |-> HTTP_422_UNPROCESSABLE_ENTITY, body |-> {}]
    ELSE IF TodoById(rows, todo_id) = NoTodo
    THEN [status |-> HTTP_404_NOT_FOUND, body |-> {}]
    ELSE [status |-> HTTP_200_OK, body |-> {TodoById(rows, todo_id)}]

\* models.Todos(**todo.model_dump()): the request has no owner_id, the column
\* stays NULL
CreateOutcome(rows, todo, new_id) ==
    IF ~TodoRequestValid(todo)
    THEN [status |-> HTTP_422_UNPROCESSABLE_ENTITY, rows |-> rows]
    ELSE [status |-> HTTP_201_CREATED,
          rows |-> rows \cup
              { [id |-> new_id, title |-> todo.title, description |-> todo.description,
                 priority |-> todo.priority, completed |-> todo.completed,
                 owner_id |-> NULL] }]

\* a handler that inserts the row when the id matches none
UpdateOutcome_Upsert(rows, todo_request, todo_id) ==
    IF ~PathValid(todo_id) \/ ~TodoRequestValid(todo_request)
    THEN [status |-> HTTP_422_UNPROCESSABLE_ENTITY, rows |-> rows]
    ELSE [status |-> HTTP_204_NO_CONTENT,
          rows |-> { t \in rows : t.id # todo_id } \cup
              { [id |-> todo_id, title |-> todo_request.title,
                 description |-> todo_request.description,
                 priority |-> todo_request.priority,
                 completed |-> todo_request.completed,
                 owner_id |-> TodoById(rows, todo_id).owner_id] }]

UpdateOutcome(rows, todo_request, todo_id) ==
    LET todo_model == TodoById(rows, todo_id) IN
    IF ~PathValid(todo_id) \/ ~TodoRequestValid(todo_request)
    THEN [status |-> HTTP_422_UNPROCESSABLE_ENTITY, rows |-> rows]
    ELSE IF todo_model = NoTodo
    THEN [status |-> HTTP_404_NOT_FOUND, rows |-> rows]
    ELSE [status |-> HTTP_204_NO_CONTENT,
          rows |-> (rows \ {todo_model}) \cup
              { [todo_model EXCEPT !.title = todo_request.title,
                                   !.description = todo_request.description,
                                   !.priority = todo_request.priority,
                                   !.completed = todo_request.completed] }]

DeleteOutcome(rows, todo_id) ==
    IF ~PathValid(todo_id)
    THEN [status |-> HTTP_422_UNPROCESSABLE_ENTITY, rows |-> rows]
    ELSE IF TodoById(rows, todo_id) = NoTodo
    THEN [status |-> HTTP_404_NOT_FOUND, rows |-> rows]
    ELSE [status |-> HTTP_204_NO_CONTENT,
          rows |-> { t \in rows : t.id # todo_id }]

read_all_todos(auth) ==
    LET out == ReadAllOutcome(todos) IN
    /\ resp' = [Respond("read_all_todos", out.status, auth, NoUser)
                  EXCEPT !.body = out.body]
    /\ UNCHANGED <<sessions, users, todos, user_seq, todo_seq, backend, now, issued>>

get_todo_by_id(auth, todo_id) ==
    LET out == GetOutcome(todos, todo_id) IN
    /\ resp' = [Respond("get_todo_by_id", out.status, auth, NoUser)
                  EXCEPT !.todo_id = todo_id, !.body = out.body]
    /\ UNCHANGED <<sessions, users, todos, user_seq, todo_seq, backend, now, issued>>

create_new_todo(auth, todo) ==
    LET new_id == NewId(backend, todos, todo_seq)
        out == CreateOutcome(todos, todo, new_id)
    IN /\ new_id <= MaxTodoId
       /\ todos' = out.rows
       /\ todo_seq' = IF backend = "postgresql" /\ out.status = HTTP_201_CREATED
                      THEN new_id ELSE todo_seq
       /\ resp' = [Respond("create_new_todo", out.status, auth, NoUser)
                     EXCEPT !.fields = todo]
       /\ UNCHANGED <<sessions, users, user_seq, backend, now, issued>>

update_todo_by_id(auth, todo_request, todo_id) ==
    LET out == UpdateOutcome(todos, todo_request, todo_id) IN
    /\ todos' = out.rows
    /\ resp' = [Respond("update_todo_by_id", out.status, auth, NoUser)
                  EXCEPT !.todo_id = todo_id, !.fields = todo_request]
    /\ UNCHANGED <<sessions, users, user_seq, todo_seq, backend, now, issued>>

delete_todo_by_id(auth, todo_id) ==
    LET out == DeleteOutcome(todos, todo_id) IN
    /\ todos' = out.rows
    /\ resp' = [Respond("delete_todo_by_id", out.status, auth, NoUser)
                  EXCEPT !.todo_id = todo_id]
    /\ UNCHANGED <<sessions, users, user_seq, todo_seq, backend, now, issued>>

(***************************************************************************)
(* routers/admin.py: the role is read from the dict get_current_user       *)
(* returns, which holds "username" and "id" only.                          *)
(***************************************************************************)
AdminReadAllOutcome(rows, cu) ==
    IF cu.status # HTTP_200_OK
    THEN [status |-> HTTP_401_UNAUTHORIZED, body |-> {}]
    ELSE IF DictGet(cu.user, "role") # "admin"
    THEN [status |-> HTTP_401_UNAUTHORIZED, body |-> {}]
    ELSE IF rows = {}
    THEN [status |-> HTTP_404_NOT_FOUND, body |-> {}]
    ELSE [status |-> HTTP_200_OK, body |-> rows]

AdminDeleteOutcome(rows, cu, todo_id) ==
    IF cu.status # HTTP_200_OK
    THEN [status |-> HTTP_401_UNAUTHORIZED, rows |-> rows]
    ELSE IF ~PathValid(todo_id)
    THEN [status |-> HTTP_422_UNPROCESSABLE_ENTITY, rows |-> rows]
    ELSE IF DictGet(cu.user, "role") # "admin"
    THEN [status |-> HTTP_401_UNAUTHORIZED, rows |-> rows]
    ELSE IF TodoById(rows, todo_id) = NoTodo
    THEN [status |-> HTTP_404_NOT_FOUND, rows |-> rows]
    ELSE [status |-> HTTP_204_NO_CONTENT,
          rows |-> { t \in rows : t.id # todo_id }]

admin_read_all_todos(auth) ==
    LET cu == get_current_user(auth, now)
        out == AdminReadAllOutcome(todos, cu)
    IN /\ resp' = [Respond("admin_read_all_todos", out.status, auth, cu.user)
                     EXCEPT !.body = out.body]
       /\ UNCHANGED <<sessions, users, todos, user_seq, todo_seq, backend, now, issued>>

admin_delete_todo_by_id(auth, todo_id) ==
    LET cu == get_current_user(auth, now)
        out == AdminDeleteOutcome(todos, cu, todo_id)
    IN /\ todos' = out.rows
       /\ resp' = [Respond("admin_delete_todo_by_id", out.status, auth, cu.user)
                     EXCEPT !.todo_id = todo_id]
       /\ UNCHANGED <<sessions, users, user_seq, todo_seq, backend, now, issued>>

(***************************************************************************)
(* Specifications.  Spec is the whole service.  The others are the same    *)
(* handlers under a narrower mix of requests, so each of their behaviours  *)
(* is a behaviour the service has.                                         *)
(***************************************************************************)
AllRegistrations == RegistrationRequests \cup Profiles

\* the headers sent to the todo routes: none, a forged one, a held token
TodoCredentials ==
    HeldTokens \cup {NoAuthorization}
        \cup { b \in BadTokens : b.sig # SECRET_KEY }

Next ==
    \/ \E req \in AllRegistrations, salt \in Salts : create_user(req, salt)
    \/ \E u \in Usernames, p \in Passwords : login_for_access_token(u, p)
    \/ \E auth \in Credentials : get_user(auth)
    \/ \E auth \in Credentials, p \in Passwords, np \in NewPasswords, salt \in Salts :
          change_password(auth, p, np, salt)
    \/ \E auth \in Credentials : read_all_todos(auth)
    \/ \E auth \in Credentials, id \in TodoIds : get_todo_by_id(auth, id)
    \/ \E auth \in Credentials, todo \in TodoRequests : create_new_todo(auth, todo)
    \/ \E auth \in Credentials, todo \in TodoRequests, id \in TodoIds :
          update_todo_by_id(auth, todo, id)
    \/ \E auth \in Credentials, id \in TodoIds : delete_todo_by_id(auth, id)
    \/ \E auth \in Credentials : admin_read_all_todos(auth)
    \/ \E auth \in Credentials, id \in TodoIds : admin_delete_todo_by_id(auth, id)
    \/ \E t \in Instants : Tick(t)

Spec == Init /\ [][Next]_vars

\* registration alone, every combination of username and e-mail
NextRegister ==
    \E req \in RegistrationRequests, salt \in Salts : create_user(req, salt)

RegisterSpec == Init /\ [][NextRegister]_vars

\* two accounts, their logins and password changes
NextPassword ==
    \/ \E req \in Profiles : create_user(req, "saltA")
    \/ \E u \in Usernames, p \in Passwords : login_for_access_token(u, p)
    \/ \E auth \in Credentials, p \in Passwords, np \in NewPasswords, salt \in Salts :
          change_password(auth, p, np, salt)

PasswordSpec == Init /\ [][NextPassword]_vars

\* two accounts, their logins, token verification as the clock runs
NextToken ==
    \/ \E req \in Profiles : create_user(req, "saltA")
    \/ \E u \in Usernames, p \in Passwords : login_for_access_token(u, p)
    \/ \E auth \in Credentials : get_user(auth)
    \/ \E t \in Instants : Tick(t)

TokenSpec == Init /\ [][NextToken]_vars

\* two accounts (a user and an admin), their logins, the todo and admin routes
NextTodo ==
    \/ \E req \in Profiles : create_user(req, "saltA")
    \/ \E u \in Usernames, p \in Passwords : login_for_access_token(u, p)
    \/ \E auth \in TodoCredentials : read_all_todos(auth)
    \/ \E auth \in TodoCredentials, id \in TodoIds : get_todo_by_id(auth, id)
    \/ \E auth \in TodoCredentials, todo \in TodoRequests : create_new_todo(auth, todo)
    \/ \E auth \in TodoCredentials, todo \in TodoRequests, id \in TodoIds :
          update_todo_by_id(auth, todo, id)
    \/ \E auth \in TodoCredentials, id \in TodoIds : delete_todo_by_id(auth, id)
    \/ \E auth \in TodoCredentials : admin_read_all_todos(auth)
    \/ \E auth \in TodoCredentials, id \in TodoIds : admin_delete_todo_by_id(auth, id)

TodoSpec == Init /\ [][NextTodo]_vars

\* the todo routes alone, called without a token or with a forged one (no
\* login happens, so no token is held)
NextTodoStore ==
    \/ \E auth \in TodoCredentials : read_all_todos(auth)
    \/ \E auth \in TodoCredentials, id \in TodoIds : get_todo_by_id(auth, id)
    \/ \E auth \in TodoCredentials, todo \in TodoRequests : create_new_todo(auth, todo)
    \/ \E auth \in TodoCredentials, todo \in TodoRequests, id \in TodoIds :
          update_todo_by_id(auth, todo, id)
    \/ \E auth \in TodoCredentials, id \in TodoIds : delete_todo_by_id(auth, id)

TodoStoreSpec == Init /\ [][NextTodoStore]_vars

(***************************************************************************)
(* routers/todos.py update_todo_by_id, statement by statement, for worker  *)
(* processes that serve requests at the same time.  Each request has its   *)
(* own Session (get_db); nothing locks the row between the SELECT and the  *)
(* commit.                                                                 *)
(***************************************************************************)
\* the mutable fields a request sends
UpdateRequests ==
    [title : {"Buy milk", "Walk dog"}, description : {"2%"},
     priority : {2, 5}, completed : {FALSE}]

\* one stored todo, as create_new_todo leaves it
StoredTodo ==
    [id |-> 1, title |-> "Buy milk", description |-> "2%", priority |-> 2,
     completed |-> FALSE, owner_id |-> NULL]

InitUpdate ==
    /\ sessions = [w \in Workers |-> IdleSession]
    /\ users = {}
    /\ todos = {StoredTodo}
    /\ user_seq = 0
    /\ backend \in Backends
    /\ todo_seq = IF backend = "postgresql" THEN 1 ELSE 0
    /\ now = 0
    /\ issued = {}
    /\ resp = Idle

\* todo_model after lines 138-141: the loaded row with the four attributes set
Assigned(loaded, todo_request) ==
    [loaded EXCEPT !.title = todo_request.title,
                   !.description = todo_request.description,
                   !.priority = todo_request.priority,
                   !.completed = todo_request.completed]

\* the attributes the unit of work has a net change for: those whose value
\* differs from the value the SELECT loaded
Dirty(obj, loaded) ==
    (IF obj.title # loaded.title THEN {"title"} ELSE {})
        \cup (IF obj.description # loaded.description THEN {"description"} ELSE {})
        \cup (IF obj.priority # loaded.priority THEN {"priority"} ELSE {})
        \cup (IF obj.completed # loaded.completed THEN {"completed"} ELSE {})

\* db.add(todo_model); db.commit(): the flush emits
\* UPDATE todos SET <dirty columns> WHERE id = :id and commits; no statement
\* when nothing is dirty; StaleDataError (unhandled) when no row matched
CommitOutcome(rows, obj, loaded) ==
    LET dirty == Dirty(obj, loaded)
        cur == TodoById(rows, obj.id)
    IN IF dirty = {}
       THEN [status |-> HTTP_204_NO_CONTENT, rows |-> rows]
       ELSE IF cur = NoTodo
       THEN [status |-> HTTP_500_INTERNAL_SERVER_ERROR, rows |-> rows]
       ELSE [status |-> HTTP_204_NO_CONTENT,
             rows |-> (rows \ {cur}) \cup
                 { [cur EXCEPT
                      !.title = IF "title" \in dirty THEN obj.title ELSE @,
                      !.description =
                          IF "description" \in dirty THEN obj.description ELSE @,
                      !.priority = IF "priority" \in dirty THEN obj.priority ELSE @,
                      !.completed =
                          IF "completed" \in dirty THEN obj.completed ELSE @] }]

\* lines 134-137: validation, the SELECT, 404 when no row
UpdateRead(w, todo_request, todo_id) ==
    LET todo_model == TodoById(todos, todo_id)
        failed == IF ~PathValid(todo_id) \/ ~TodoRequestValid(todo_request)
                  THEN HTTP_422_UNPROCESSABLE_ENTITY
                  ELSE IF todo_model = NoTodo THEN HTTP_404_NOT_FOUND ELSE 0
    IN /\ sessions[w].pc \in {"idle", "done"}
       /\ sessions' =
            [sessions EXCEPT ![w] =
                IF failed # 0
                THEN [IdleSession EXCEPT !.pc = "done", !.status = failed,
                                         !.todo_id = todo_id, !.request = todo_request]
                ELSE [pc |-> "read", status |-> 0, todo_id |-> todo_id,
                      request |-> todo_request, loaded |-> todo_model]]
       /\ resp' = IF failed # 0
                  THEN [Respond("update_todo_by_id", failed, NoAuthorization, NoUser)
                          EXCEPT !.todo_id = todo_id, !.fields = todo_request]
                  ELSE resp
       /\ UNCHANGED <<users, todos, user_seq, todo_seq, backend, now, issued>>

\* lines 138-141: the four assignments, on the worker's own object
UpdateAssign(w) ==
    /\ sessions[w].pc = "read"
    /\ sessions' = [sessions EXCEPT ![w].pc = "assigned"]
    /\ UNCHANGED <<users, todos, user_seq, todo_seq, backend, now, issued, resp>>

\* lines 143-144
UpdateCommit(w) ==
    LET s == sessions[w]
        out == CommitOutcome(todos, Assigned(s.loaded, s.request), s.loaded)
    IN /\ s.pc = "assigned"
       /\ todos' = out.rows
       /\ sessions' = [sessions EXCEPT ![w].pc = "done", ![w].status = out.status]
       /\ resp' = [Respond("update_todo_by_id", out.status, NoAuthorization, NoUser)
                     EXCEPT !.todo_id = s.todo_id, !.fields = s.request]
       /\ UNCHANGED <<users, user_seq, todo_seq, backend, now, issued>>

\* update requests served by the workers at the same time, and deletes
NextUpdate ==
    \/ \E w \in Workers, todo \in UpdateRequests, id \in TodoIds :
          UpdateRead(w, todo, id)
    \/ \E w \in Workers : UpdateAssign(w)
    \/ \E w \in Workers : UpdateCommit(w)
    \/ \E id \in TodoIds : delete_todo_by_id(NoAuthorization, id)

UpdateSpec == InitUpdate /\ [][NextUpdate]_vars

(***************************************************************************)
(* Properties of the todo and admin routes (TodoSpec, TodoStoreSpec).      *)
(***************************************************************************)
TodoOps ==
    {"read_all_todos", "get_todo_by_id", "create_new_todo",
     "update_todo_by_id", "delete_todo_by_id"}

Without(rows, todo_id) == { t \in rows : t.id # todo_id }

\* the stored role of the user a token names
StoredRole(auth) == UserById(users, auth.id).role

\* C1: an admin delete of an existing todo made with a token that login
\* issued to a user whose stored role is "admin" answers 204 and removes the
\* todo, whoever owns it; made with a token issued to any other user it
\* answers 401 and leaves the todo table as it was.
C1_AdminDelete ==
    [][ ( /\ resp'.op = "admin_delete_todo_by_id"
          /\ resp'.auth \in HeldTokens
          /\ resp'.todo_id \in Ids(todos) )
        => IF StoredRole(resp'.auth) = "admin"
           THEN /\ resp'.status = HTTP_204_NO_CONTENT
                /\ todos' = Without(todos, resp'.todo_id)
           ELSE /\ resp'.status = HTTP_401_UNAUTHORIZED
                /\ todos' = todos ]_vars

\* C2: a call to list, get, create, update or delete that carries no valid
\* (correctly signed, unexpired) token answers 401 and leaves the todo table
\* as it was.
C2_TodoRoutesRequireToken ==
    [][ ( /\ resp'.op \in TodoOps
          /\ get_current_user(resp'.auth, now).status # HTTP_200_OK )
        => /\ resp'.status = HTTP_401_UNAUTHORIZED
           /\ todos' = todos ]_vars

\* C3: a get, update or delete by a non-admin user A on the id of a stored
\* todo whose owner_id is not A's id answers 404 and leaves the todo table as
\* it was.
C3_OwnerIsolation ==
    [][ ( /\ resp'.op \in {"get_todo_by_id", "update_todo_by_id", "delete_todo_by_id"}
          /\ resp'.auth \in HeldTokens
          /\ StoredRole(resp'.auth) # "admin"
          /\ resp'.op = "update_todo_by_id" => TodoRequestValid(resp'.fields)
          /\ \E t \in todos : t.id = resp'.todo_id /\ t.owner_id # resp'.auth.id )
        => /\ resp'.status = HTTP_404_NOT_FOUND
           /\ todos' = todos ]_vars

\* C4: after create(f) by an authenticated user u with valid f, the table
\* holds one new row with a fresh id, and get of that id returns f's title,
\* description, priority and completed with owner_id equal to u's id.
C4_CreateGetRoundTrip ==
    [][ ( /\ resp'.op = "create_new_todo"
          /\ resp'.auth \in HeldTokens
          /\ TodoRequestValid(resp'.fields) )
        => \E t \in todos' \ todos :
              /\ todos' = todos \cup {t}
              /\ t.id # NULL
              /\ t.id \notin Ids(todos)
              /\ GetOutcome(todos', t.id).status = HTTP_200_OK
              /\ GetOutcome(todos', t.id).body =
                    { [id |-> t.id, title |-> resp'.fields.title,
                       description |-> resp'.fields.description,
                       priority |-> resp'.fields.priority,
                       completed |-> resp'.fields.completed,
                       owner_id |-> resp'.auth.id] } ]_vars

\* C5: a list by an authenticated caller answers 404 when no todo is visible
\* and otherwise 200 with exactly the visible todos; the same for the admin
\* list called by an admin.  (Every stored todo is visible here: the user list
\* applies no owner filter.)
C5_EmptyListIsNotFound ==
    ( /\ resp.auth \in HeldTokens
      /\ \/ resp.op = "read_all_todos"
         \/ resp.op = "admin_read_all_todos" /\ StoredRole(resp.auth) = "admin" )
    => IF todos = {}
       THEN resp.status = HTTP_404_NOT_FOUND
       ELSE resp.status = HTTP_200_OK /\ resp.body = todos

\* C9 as stated: update or delete on any id that matches no stored todo
\* answers 404 and leaves the todo table as it was.
C9_MissingTodoAlways404 ==
    [][ ( /\ resp'.op \in {"update_todo_by_id", "delete_todo_by_id"}
          /\ resp'.todo_id \notin Ids(todos) )
        => /\ resp'.status = HTTP_404_NOT_FOUND
           /\ todos' = todos ]_vars

\* C9: update or delete on an id that matches no stored todo leaves the todo
\* table as it was (no row created, none modified); it answers 404 when the
\* id is at least 1 and, for update, the fields are valid, and 422 otherwise.
C9_MissingTodo ==
    [][ ( /\ resp'.op \in {"update_todo_by_id", "delete_todo_by_id"}
          /\ resp'.todo_id \notin Ids(todos) )
        => /\ todos' = todos
           /\ resp'.status =
                IF /\ PathValid(resp'.todo_id)
                   /\ resp'.op = "update_todo_by_id" => TodoRequestValid(resp'.fields)
                THEN HTTP_404_NOT_FOUND
                ELSE HTTP_422_UNPROCESSABLE_ENTITY ]_vars

\* an update with valid fields on a missing id was answered 404 while other
\* rows are stored
C9_Witness ==
    /\ resp.op = "update_todo_by_id"
    /\ resp.status = HTTP_404_NOT_FOUND
    /\ PathValid(resp.todo_id)
    /\ TodoRequestValid(resp.fields)
    /\ resp.todo_id \notin Ids(todos)
    /\ todos # {}

\* C10: every stored todo has a priority in 1..5, a title of at least 3
\* characters, a description of 1 to 100 characters and an owner_id that is
\* the id of a stored user; a create or update with fields outside these
\* bounds is rejected and changes nothing.
C10_TodoRecordInvariant ==
    [][ /\ \A t \in todos' : TodoRequestValid(t) /\ t.owner_id \in Ids(users')
        /\ ( /\ resp'.op \in {"create_new_todo", "update_todo_by_id"}
             /\ ~TodoRequestValid(resp'.fields) )
           => /\ resp'.status = HTTP_422_UNPROCESSABLE_ENTITY
              /\ todos' = todos ]_vars

(***************************************************************************)
(* Properties of registration (RegisterSpec).                              *)
(***************************************************************************)
\* C6: a registration that shares its username or its e-mail with a stored
\* user fails with a handled client error (a 4xx answer) and leaves the user
\* table as it was, any other registration answers 201, and no two stored
\* users share a username or an e-mail.
C6_DuplicateRegistration ==
    [][ resp'.op = "create_user"
        => /\ IF \E u \in users :
                    u.username = resp'.username \/ u.email = resp'.email
              THEN resp'.status \in 400 .. 499 /\ users' = users
              ELSE resp'.status = HTTP_201_CREATED
           /\ \A a, b \in users' :
                 (a.username = b.username \/ a.email = b.email) => a = b ]_vars

(***************************************************************************)
(* Properties of the password change (PasswordSpec).                       *)
(***************************************************************************)
\* the caller's row is the only one that may differ
OthersKept(before, after, user_id) ==
    /\ Ids(after) = Ids(before)
    /\ \A o \in before : o.id # user_id => o \in after

\* what a password change by the user of a verified token must do: 401 and
\* nothing changed when the old password does not match the stored hash;
\* otherwise 204, the new password authenticates, the old one no longer does
\* (when they differ), and no other row changes
PasswordChanged(r, before, after) ==
    LET usr == UserById(before, r.auth.id) IN
    IF ~bcrypt_verify(r.password, usr.hashed_password)
    THEN r.status = HTTP_401_UNAUTHORIZED /\ after = before
    ELSE /\ r.status = HTTP_204_NO_CONTENT
         /\ is_user_authenticated(usr.username, r.new_password, after).ok
         /\ r.password # r.new_password
               => ~is_user_authenticated(usr.username, r.password, after).ok
         /\ OthersKept(before, after, usr.id)

\* C7 as stated: the above for every new password.
C7_ChangePasswordAnyNewPassword ==
    [][ ( /\ resp'.op = "change_password"
          /\ resp'.auth \in HeldTokens
          /\ get_current_user(resp'.auth, now).status = HTTP_200_OK )
        => PasswordChanged(resp', users, users') ]_vars

\* C7: a password change by an authenticated user with a new password of 6
\* to 50 characters answers 401 and changes nothing when the old password
\* does not match the stored hash; when it matches, the hash is replaced so
\* that the new password authenticates and the old one (when different) does
\* not, and no other user's row changes.  With a new password outside 6..50
\* characters the call answers 422 and changes nothing.
C7_ChangePassword ==
    [][ ( /\ resp'.op = "change_password"
          /\ resp'.auth \in HeldTokens
          /\ get_current_user(resp'.auth, now).status = HTTP_200_OK )
        => IF UserVerificationValid(resp'.new_password)
           THEN PasswordChanged(resp', users, users')
           ELSE /\ resp'.status = HTTP_422_UNPROCESSABLE_ENTITY
                /\ users' = users ]_vars

\* a password was changed to a different one while a second user is stored
C7_Witness ==
    /\ resp.op = "change_password"
    /\ resp.status = HTTP_204_NO_CONTENT
    /\ resp.password # resp.new_password
    /\ Cardinality(users) = 2
    /\ is_user_authenticated(resp.identity.username, resp.new_password, users).ok

(***************************************************************************)
(* Properties of the tokens (TokenSpec).  get_user answers with the        *)
(* identity get_current_user took from the token.                          *)
(***************************************************************************)
Identity(h) == [username |-> h.username, id |-> UserByName(users, h.username).id]

\* C8 as stated: a token login issued verifies to its user's id and
\* username at any time before issuance + 60 minutes and fails with 401 at
\* any time after it; a token with a bad signature or without the subject or
\* id claim fails with 401.
C8_ExpiresRightAfter60Minutes ==
    resp.op = "get_user"
    => /\ \A h \in issued :
            resp.auth = h.token
            => /\ now < h.iat + ExpireTicks
                  => /\ resp.status = HTTP_200_OK
                     /\ resp.identity = Identity(h)
               /\ now > h.iat + ExpireTicks
                  => resp.status = HTTP_401_UNAUTHORIZED
       /\ resp.auth \in BadTokens => resp.status = HTTP_401_UNAUTHORIZED

\* C8: a token login issued verifies to its user's id and username at any
\* time before issuance + 60 minutes and fails with 401 once a full second
\* has passed after issuance + 60 minutes; a token with a bad signature or
\* without the subject or id claim fails with 401.
C8_TokenRoundTrip ==
    resp.op = "get_user"
    => /\ \A h \in issued :
            resp.auth = h.token
            => /\ now < h.iat + ExpireTicks
                  => /\ resp.status = HTTP_200_OK
                     /\ resp.identity = Identity(h)
               /\ now >= h.iat + ExpireTicks + TicksPerSecond
                  => resp.status = HTTP_401_UNAUTHORIZED
       /\ resp.auth \in BadTokens => resp.status = HTTP_401_UNAUTHORIZED

\* a token that login issued was refused after its lifetime
C8_Witness ==
    /\ resp.op = "get_user"
    /\ resp.status = HTTP_401_UNAUTHORIZED
    /\ \E h \in issued :
          resp.auth = h.token /\ now >= h.iat + ExpireTicks + TicksPerSecond

(***************************************************************************)
(* Properties of updates served at the same time (UpdateSpec).             *)
(***************************************************************************)
MutableFields(t) ==
    [title |-> t.title, description |-> t.description, priority |-> t.priority,
     completed |-> t.completed]

\* C11: when two update requests on the same id have both succeeded (each
\* read the row, assigned its fields and committed, in any interleaving, and
\* no later write has touched the row), the row's four mutable fields equal
\* the complete field set of one of the two requests, never a mixture.
C11_NoMixedUpdate ==
    \A w1, w2 \in Workers :
        ( /\ w1 # w2
          /\ sessions[w1].pc = "done" /\ sessions[w1].status = HTTP_204_NO_CONTENT
          /\ sessions[w2].pc = "done" /\ sessions[w2].status = HTTP_204_NO_CONTENT
          /\ sessions[w1].todo_id = sessions[w2].todo_id
          /\ sessions[w1].todo_id \in Ids(todos) )
        => MutableFields(TodoById(todos, sessions[w1].todo_id))
               \in {sessions[w1].request, sessions[w2].request}

====
